---- MODULE Spec2Model ----
(***************************************************************************)
(* Thai -> Chinese TTS: the translation orchestrator (TranslationService)  *)
(* and the speech synthesis manager (MeloTTSService).                      *)
(*                                                                         *)
(* The caller's thread runs each public method as one step.  The threads   *)
(* the services own (the executor's single worker, the cleanup thread)     *)
(* take their own steps in between.  Request threads that are inside the   *)
(* speech manager at the same time are modelled statement by statement.    *)
(***************************************************************************)
EXTENDS Integers, Sequences, FiniteSets, TLC

(***************************************************************************)
(* Program constants and bounds of the exploration                         *)
(***************************************************************************)
SHORT_TEXT_THRESHOLD == 500
CACHE_SIZE == 100

\* The cache capacity the exploration uses: lru_cache(maxsize=CACHE_SIZE)
\* scaled down so that capacity eviction happens with the two keys explored.
MaxCache == 1
\* Number of translate_async submissions explored.
MaxAsync == 2

CLEANUP_INTERVAL_SECONDS == 3600
MAX_FILE_AGE_SECONDS == 3600
\* Single seconds the clock advances by (besides one whole retention window)
\* and during which artifacts are written, engine loads and artifacts on disk
\* explored.
MaxSeconds == 2
MaxLoads == 2
MaxFiles == 2

Min(a, b) == IF a <= b THEN a ELSE b
maxsize == Min(CACHE_SIZE, MaxCache)

(***************************************************************************)
(* Texts.  A text is a body surrounded by `pad` whitespace characters on   *)
(* each side; the body itself neither starts nor ends with whitespace.     *)
(***************************************************************************)
BodyLen(b) ==
    CASE b = "" -> 0
      [] b = "S" -> SHORT_TEXT_THRESHOLD
      [] b = "L" -> SHORT_TEXT_THRESHOLD + 1

Txt(p, b) == [pad |-> p, body |-> b]

\* The inputs callers pass: "", "  ", the 500-character text bare and padded,
\* and the 501-character text.
Texts == {Txt(0, ""), Txt(1, ""), Txt(0, "S"), Txt(1, "S"), Txt(0, "L")}
\* The inputs passed to translate_async.
AsyncTexts == {Txt(1, "S"), Txt(0, "L")}

\* len(text)
StrLen(t) == 2 * t.pad + BodyLen(t.body)
\* text.strip()
strip(t) == [pad |-> 0, body |-> t.body]

(***************************************************************************)
(* The two external translation providers.  One call either returns a      *)
(* text or raises with a message.                                          *)
(***************************************************************************)
GoogleAnswers == {"zhG"}
DeepAnswers == {"zhD"}
GoogleOutcome == [ok : {TRUE}, text : GoogleAnswers, msg : {""}]
                   \cup [ok : {FALSE}, text : {""}, msg : {"gfail"}]
DeepOutcome == [ok : {TRUE}, text : DeepAnswers, msg : {""}]
                 \cup [ok : {FALSE}, text : {""}, msg : {"dfail"}]

NoPair == <<"", <<>> >>
NoErr == [type |-> "", msg |-> <<>>]
Returned(p, att) == [kind |-> "ok", pair |-> p, err |-> NoErr, attempts |-> att]
Raised(ty, m, att) ==
    [kind |-> "error", pair |-> NoPair, err |-> [type |-> ty, msg |-> m], attempts |-> att]
Attempt(b, ok) == [backend |-> b, ok |-> ok]

\* _translate_google_sync: any failure of googletrans is re-raised as
\* RuntimeError(f"Googletrans error: {e}").
translate_google_sync(text, g) ==
    IF g.ok THEN [ok |-> TRUE, text |-> g.text, msg |-> <<>>]
            ELSE [ok |-> FALSE, text |-> "", msg |-> <<"Googletrans error: ", g.msg>>]

\* self.deep_translator.translate(text): the failure is raised as it is.
deep_translate(text, d) ==
    IF d.ok THEN [ok |-> TRUE, text |-> d.text, msg |-> <<>>]
            ELSE [ok |-> FALSE, text |-> "", msg |-> <<d.msg>>]

\* Mutant for C4: the alternate backend's result is not tagged.
fallback_untagged(backend) == <<backend>>

\* The mechanism of a result the alternate backend produced.
fallback(backend) == <<backend, " (fallback)">>

\* Mutant for C3: the threshold compared with < instead of <=.
use_googletrans_first_strict(text) == StrLen(text) < SHORT_TEXT_THRESHOLD

use_googletrans_first(text) == StrLen(text) <= SHORT_TEXT_THRESHOLD

\* _translate_impl(text), given what the two providers answer when called.
translate_impl(text, g, d) ==
    LET gr == translate_google_sync(text, g)
        dr == deep_translate(text, d)
    IN IF use_googletrans_first(text)
       THEN IF gr.ok
            THEN Returned(<<gr.text, <<"googletrans">> >>,
                          <<Attempt("googletrans", TRUE)>>)
            ELSE IF dr.ok
                 THEN Returned(<<dr.text, fallback("deep-translator") >>,
                               <<Attempt("googletrans", FALSE),
                                 Attempt("deep-translator", TRUE)>>)
                 ELSE Raised("TranslationError",
                             <<"All translators failed. Google: ">> \o gr.msg
                                 \o <<", Deep: ">> \o dr.msg,
                             <<Attempt("googletrans", FALSE),
                               Attempt("deep-translator", FALSE)>>)
       ELSE IF dr.ok
            THEN Returned(<<dr.text, <<"deep-translator">> >>,
                          <<Attempt("deep-translator", TRUE)>>)
            ELSE IF gr.ok
                 THEN Returned(<<gr.text, fallback("googletrans") >>,
                               <<Attempt("deep-translator", FALSE),
                                 Attempt("googletrans", TRUE)>>)
                 ELSE Raised("TranslationError",
                             <<"All translators failed: ">> \o gr.msg,
                             <<Attempt("deep-translator", FALSE),
                               Attempt("googletrans", FALSE)>>)

\* Everything one run of _translate_impl(text) can return or raise.
ImplResults(text) == {translate_impl(text, g, d) : g \in GoogleOutcome, d \in DeepOutcome}

(***************************************************************************)
(* functools.lru_cache(maxsize): entries ordered least recently used       *)
(* first.                                                                  *)
(***************************************************************************)
InCache(c, k) == \E i \in 1..Len(c) : c[i].key = k
CacheIndex(c, k) == CHOOSE i \in 1..Len(c) : c[i].key = k
CacheValue(c, k) == c[CacheIndex(c, k)].val
Without(c, i) == [j \in 1..(Len(c) - 1) |-> IF j < i THEN c[j] ELSE c[j + 1]]
\* A hit moves the entry to the most recently used end.
CacheTouch(c, k) == Append(Without(c, CacheIndex(c, k)), c[CacheIndex(c, k)])
\* Mutant for C2: a result computed while the key was added replaces the entry.
CacheStore_overwrite(c, k, v) ==
    IF InCache(c, k) THEN [c EXCEPT ![CacheIndex(c, k)].val = v]
    ELSE Append(IF Len(c) >= maxsize THEN Tail(c) ELSE c, [key |-> k, val |-> v])

\* A computed result is stored unless the key was added meanwhile; a full
\* cache drops its least recently used entry.
CacheStore(c, k, v) ==
    IF InCache(c, k) THEN c
    ELSE Append(IF Len(c) >= maxsize THEN Tail(c) ELSE c, [key |-> k, val |-> v])
CacheKeys(c) == {c[i].key : i \in 1..Len(c)}

(***************************************************************************)
(* State                                                                   *)
(***************************************************************************)
VARIABLES
    unit,             \* the component this behaviour exercises
    cache,            \* TranslationService._cached_translate's entries
    executor,         \* TranslationService._executor: "None", "running", "shutdown"
    futures,          \* the work items submitted to the executor, in order
    future,           \* TranslationService._future: index into futures, 0 = None
    ret,              \* what the caller's last TranslationService call did
    seen,             \* per key, the distinct pairs translate returned since the
                      \* key's entry was last dropped, in order of return (history)
    model,            \* MeloTTSService._model: 0 = None, else the n-th engine built
    speaker_ids,      \* MeloTTSService._speaker_ids: <<>> = None, else name -> id in order
    speakers,         \* MeloTTSService._speakers: <<>> = None, else the names in order
    voices,           \* MeloTTSService._voices: <<>> = None, else the voice mapping
    loads,            \* how many engines were built
    thread,           \* the cleanup thread: "None", or where _cleanup_worker stands
    stop_cleanup,     \* MeloTTSService._stop_cleanup is set
    sweep,            \* the cleanup thread's _cleanup_old_files call and wait
    files,            \* the *.wav files of the output directory
    clock,            \* the time
    tret,             \* what the caller's last MeloTTSService call did
    callers           \* request threads inside MeloTTSService calls: per thread,
                      \* the call, where it stands, and its local variables

trVars == <<cache, executor, futures, future, ret, seen>>
ttsVars == <<model, speaker_ids, speakers, voices, loads, thread, stop_cleanup, sweep,
             files, clock, tret, callers>>
vars == <<unit, cache, executor, futures, future, ret, seen,
          model, speaker_ids, speakers, voices, loads, thread, stop_cleanup, sweep,
          files, clock, tret, callers>>

Keys == {strip(t) : t \in Texts}
NoText == Txt(0, "")
NoRes == [kind |-> "none", pair |-> NoPair, err |-> NoErr, attempts |-> <<>>]
Ret(op, t, res, flag) ==
    [op |-> op, text |-> t, kind |-> res.kind, pair |-> res.pair, err |-> res.err,
     attempts |-> res.attempts, flag |-> flag]

InitTranslation ==
    /\ cache = <<>>
    /\ executor = "None"
    /\ futures = <<>>
    /\ future = 0
    /\ ret = Ret("init", NoText, NoRes, FALSE)
    /\ seen = [k \in Keys |-> <<>>]

\* History: a call on key k returned pair p; entries dropped from the cache
\* forget what was returned for them.
SeenAfter(s, cBefore, cAfter, k, p) ==
    [x \in Keys |->
        IF x = k THEN (IF \E i \in 1..Len(s[x]) : s[x][i] = p THEN s[x] ELSE Append(s[x], p))
        ELSE IF x \in CacheKeys(cBefore) /\ x \notin CacheKeys(cAfter) THEN <<>>
        ELSE s[x]]

(***************************************************************************)
(* TranslationService.translate on the caller's thread                     *)
(***************************************************************************)
\* Mutant for C5: the wrapper stores whatever the call ended with.
translate_call_caches_failure(t, c, r) ==
    LET text == strip(t)
    IN IF StrLen(text) = 0
       THEN [res |-> Returned(<<"", <<"none">> >>, <<>>), cache |-> c]
       ELSE IF InCache(c, text)
            THEN [res |-> Returned(CacheValue(c, text), <<>>), cache |-> CacheTouch(c, text)]
            ELSE [res |-> r, cache |-> CacheStore(c, text, r.pair)]

\* Mutant for C6: the empty check made before the text is stripped.
translate_call_checks_raw(t, c, r) ==
    LET text == strip(t)
    IN IF StrLen(t) = 0
       THEN [res |-> Returned(<<"", <<"none">> >>, <<>>), cache |-> c]
       ELSE IF InCache(c, text)
            THEN [res |-> Returned(CacheValue(c, text), <<>>), cache |-> CacheTouch(c, text)]
            ELSE [res |-> r,
                  cache |-> IF r.kind = "ok" THEN CacheStore(c, text, r.pair) ELSE c]

\* translate(text) run against cache c: what it returns or raises, and the
\* cache afterwards.
translate_call(t, c, r) ==
    LET text == strip(t)
    IN IF StrLen(text) = 0
       THEN [res |-> Returned(<<"", <<"none">> >>, <<>>), cache |-> c]
       ELSE IF InCache(c, text)
            THEN [res |-> Returned(CacheValue(c, text), <<>>), cache |-> CacheTouch(c, text)]
            ELSE [res |-> r,
                  cache |-> IF r.kind = "ok" THEN CacheStore(c, text, r.pair) ELSE c]

\* translate(text) gets past the empty check and the cache lookup, and so
\* runs _translate_impl.
Misses(t, c) == StrLen(strip(t)) > 0 /\ ~InCache(c, strip(t))

translate(t) ==
    /\ unit = "translation"
    /\ \E r \in IF Misses(t, cache) THEN ImplResults(strip(t)) ELSE {NoRes} :
         LET call == translate_call(t, cache, r)
         IN /\ cache' = call.cache
            /\ ret' = Ret("translate", t, call.res, FALSE)
            /\ seen' = IF call.res.kind = "ok" /\ StrLen(strip(t)) > 0
                       THEN SeenAfter(seen, cache, call.cache, strip(t), call.res.pair)
                       ELSE seen
    /\ UNCHANGED <<unit, ttsVars, executor, futures, future>>

(***************************************************************************)
(* translate_async / get_translation_result / is_translation_done          *)
(***************************************************************************)
\* The executor property creates the ThreadPoolExecutor when _executor is None.
executor_get(e) == IF e = "None" THEN "running" ELSE e

\* The Future that _future no longer refers to: nothing can read its result.
Superseded(fs, f) == [i \in 1..Len(fs) |-> IF i = f THEN [fs[i] EXCEPT !.res = NoRes] ELSE fs[i]]
\* A work item finishes: its Future keeps the outcome while _future refers to it.
Finished(fs, f, i, res) ==
    [fs EXCEPT ![i].state = "finished", ![i].res = IF i = f THEN res ELSE NoRes]

\* Mutant for C14: a second submission leaves _future at the first handle.
translate_async_keeps_first(t) ==
    /\ unit = "translation"
    /\ Len(futures) < MaxAsync
    /\ executor' = executor_get(executor)
    /\ IF executor' = "shutdown"
       THEN /\ ret' = Ret("translate_async", t,
                          Raised("RuntimeError",
                                 <<"cannot schedule new futures after shutdown">>, <<>>),
                          FALSE)
            /\ UNCHANGED <<futures, future>>
       ELSE /\ futures' = Append(futures, [text |-> t, state |-> "pending", res |-> NoRes])
            /\ future' = IF future = 0 THEN Len(futures) + 1 ELSE future
            /\ ret' = Ret("translate_async", t, Returned(NoPair, <<>>), FALSE)
    /\ UNCHANGED <<unit, ttsVars, cache, seen>>

translate_async(t) ==
    /\ unit = "translation"
    /\ Len(futures) < MaxAsync
    /\ executor' = executor_get(executor)
    /\ IF executor' = "shutdown"
       THEN \* submit raises; the assignment to _future does not happen
            /\ ret' = Ret("translate_async", t,
                          Raised("RuntimeError",
                                 <<"cannot schedule new futures after shutdown">>, <<>>),
                          FALSE)
            /\ UNCHANGED <<futures, future>>
       ELSE /\ futures' = Append(Superseded(futures, future),
                                  [text |-> t, state |-> "pending", res |-> NoRes])
            /\ future' = Len(futures) + 1
            /\ ret' = Ret("translate_async", t, Returned(NoPair, <<>>), FALSE)
    /\ UNCHANGED <<unit, ttsVars, cache, seen>>

\* Mutant for C13: a call that times out drops the handle.
get_translation_result_discards ==
    /\ unit = "translation"
    /\ ret' = Ret("get_translation_result", NoText,
                  IF future = 0
                  THEN Raised("TranslationError", <<"No translation in progress">>, <<>>)
                  ELSE IF futures[future].state # "finished"
                  THEN Raised("TranslationError", <<"Translation timed out">>, <<>>)
                  ELSE IF futures[future].res.kind = "ok"
                  THEN Returned(futures[future].res.pair, <<>>)
                  ELSE Raised("TranslationError",
                              <<"Translation failed: ">> \o futures[future].res.err.msg,
                              <<>>),
                  FALSE)
    /\ future' = IF future # 0 /\ futures[future].state # "finished" THEN 0 ELSE future
    /\ UNCHANGED <<unit, ttsVars, cache, executor, futures, seen>>

\* get_translation_result(timeout).  A pending computation makes the call
\* time out; the call that waits long enough is the one taken after the
\* computation has finished.
get_translation_result ==
    /\ unit = "translation"
    /\ ret' = Ret("get_translation_result", NoText,
                  IF future = 0
                  THEN Raised("TranslationError", <<"No translation in progress">>, <<>>)
                  ELSE IF futures[future].state # "finished"
                  THEN Raised("TranslationError", <<"Translation timed out">>, <<>>)
                  ELSE IF futures[future].res.kind = "ok"
                  THEN Returned(futures[future].res.pair, <<>>)
                  ELSE Raised("TranslationError",
                              <<"Translation failed: ">> \o futures[future].res.err.msg,
                              <<>>),
                  FALSE)
    /\ UNCHANGED <<unit, ttsVars, cache, executor, futures, future, seen>>

is_translation_done ==
    /\ unit = "translation"
    /\ ret' = Ret("is_translation_done", NoText, Returned(NoPair, <<>>),
                  future # 0 /\ futures[future].state = "finished")
    /\ UNCHANGED <<unit, ttsVars, cache, executor, futures, future, seen>>

(***************************************************************************)
(* The executor's single worker thread: it takes the work items in         *)
(* submission order, one at a time, and runs translate(text) for each.     *)
(* A shut down executor still runs what was submitted before.              *)
(***************************************************************************)
Pending == {i \in 1..Len(futures) : futures[i].state = "pending"}
Running == {i \in 1..Len(futures) : futures[i].state = "running"}
FirstPending == CHOOSE i \in Pending : \A j \in Pending : i <= j

\* Mutant for C19: a pool of more than one worker, the next work item is
\* started while another is running.
worker_start_second_worker ==
    /\ unit = "translation"
    /\ Pending # {}
    /\ LET i == FirstPending
           text == strip(futures[i].text)
       IN IF StrLen(text) = 0 \/ InCache(cache, text)
          THEN LET call == translate_call(futures[i].text, cache, NoRes)
               IN /\ futures' = Finished(futures, future, i, call.res)
                  /\ cache' = call.cache
                  /\ seen' = IF StrLen(text) > 0
                             THEN SeenAfter(seen, cache, call.cache, text, call.res.pair)
                             ELSE seen
          ELSE /\ futures' = [futures EXCEPT ![i].state = "running"]
               /\ UNCHANGED <<cache, seen>>
    /\ UNCHANGED <<unit, ttsVars, executor, future, ret>>

\* The worker starts the next work item: translate strips the text and looks
\* it up; an empty text or a hit finishes the item at once.
worker_start ==
    /\ unit = "translation"
    /\ Running = {}
    /\ Pending # {}
    /\ LET i == FirstPending
           text == strip(futures[i].text)
       IN IF StrLen(text) = 0 \/ InCache(cache, text)
          THEN LET call == translate_call(futures[i].text, cache, NoRes)
               IN /\ futures' = Finished(futures, future, i, call.res)
                  /\ cache' = call.cache
                  /\ seen' = IF StrLen(text) > 0
                             THEN SeenAfter(seen, cache, call.cache, text, call.res.pair)
                             ELSE seen
          ELSE /\ futures' = [futures EXCEPT ![i].state = "running"]
               /\ UNCHANGED <<cache, seen>>
    /\ UNCHANGED <<unit, ttsVars, executor, future, ret>>

\* The providers answer and the wrapper stores the result, unless the
\* call raised.
worker_finish ==
    /\ unit = "translation"
    /\ Running # {}
    /\ \E i \in Running :
       \E r \in ImplResults(strip(futures[i].text)) :
         LET text == strip(futures[i].text)
             c == IF r.kind = "ok" THEN CacheStore(cache, text, r.pair) ELSE cache
         IN /\ futures' = Finished(futures, future, i, r)
            /\ cache' = c
            /\ seen' = IF r.kind = "ok"
                       THEN SeenAfter(seen, cache, c, text, r.pair)
                       ELSE seen
    /\ UNCHANGED <<unit, ttsVars, executor, future, ret>>

(***************************************************************************)
(* TranslationService.shutdown                                             *)
(***************************************************************************)
\* Mutant for C8: shutting down an executor that is already shut down drops it.
executor_shutdown_drops(e) ==
    IF e = "running" THEN "shutdown" ELSE "None"

\* if self._executor: self._executor.shutdown(wait=False)
executor_shutdown(e) == IF e # "None" THEN "shutdown" ELSE e
\* self._cached_translate.cache_clear()
cache_clear(c) == <<>>

\* shutdown() as a function of the fields it touches.
translation_shutdown(s) ==
    [executor |-> executor_shutdown(s.executor), cache |-> cache_clear(s.cache)]

TranslationService_shutdown ==
    /\ unit = "translation"
    /\ LET after == translation_shutdown([executor |-> executor, cache |-> cache])
       IN /\ executor' = after.executor
          /\ cache' = after.cache
    /\ seen' = [k \in Keys |-> <<>>]
    /\ ret' = Ret("shutdown", NoText, Returned(NoPair, <<>>), FALSE)
    /\ UNCHANGED <<unit, ttsVars, futures, future>>

NextTranslation ==
    \/ \E t \in Texts : translate(t)
    \/ \E t \in AsyncTexts : translate_async(t)
    \/ get_translation_result
    \/ is_translation_done
    \/ worker_start
    \/ worker_finish
    \/ TranslationService_shutdown

(***************************************************************************)
(* MeloTTSService: the engine and its lazily built voice state             *)
(***************************************************************************)
\* The speaker rosters (hps.data.spk2id, in its order) an engine can report.
Speaker(n, i) == [name |-> n, id |-> i]
Rosters == {<<Speaker("ZH", 1)>>, <<Speaker("EN", 0), Speaker("ZH", 1)>>}
\* Building the engine either gives one with a roster or raises.
LoadOutcome == [ok : {TRUE}, roster : Rosters] \cup [ok : {FALSE}, roster : {<<>>}]
\* tts_to_file either writes the file or raises.
SynthOutcome == {"written", "raised"}
\* The texts passed to generate_speech.
SpeechTexts == {Txt(0, ""), Txt(1, ""), Txt(0, "S")}

\* list(self._speaker_ids.keys())
SpeakerNames(ids) == [i \in 1..Len(ids) |-> ids[i].name]
\* self._speaker_ids[speaker]
SpeakerId(ids, speaker) == ids[CHOOSE i \in 1..Len(ids) : ids[i].name = speaker].id
\* labels.get(speaker, speaker)
Label(speaker) == IF speaker = "ZH" THEN "Chinese Female" ELSE speaker

\* Mutant for C12: the voices keyed from 0.
build_voice_mapping_zero_based(spk, ids) ==
    [idx \in 1..Len(spk) |->
        [key |-> ToString(idx - 1), name |-> spk[idx], label |-> Label(spk[idx]),
         speaker_id |-> SpeakerId(ids, spk[idx])]]

\* _build_voice_mapping: one voice per speaker, keyed str(idx) from 1.
build_voice_mapping(spk, ids) ==
    [idx \in 1..Len(spk) |->
        [key |-> ToString(idx), name |-> spk[idx], label |-> Label(spk[idx]),
         speaker_id |-> SpeakerId(ids, spk[idx])]]

Engine(m, ids, spk, v, n) ==
    [model |-> m, speaker_ids |-> ids, speakers |-> spk, voices |-> v, loads |-> n]
CurrentEngine == Engine(model, speaker_ids, speakers, voices, loads)

\* The model property: builds the engine and the voice state when _model is
\* None.  Gives the fields afterwards and whether building raised.
model_get(s, o) ==
    IF s.model # 0 THEN [raised |-> FALSE, engine |-> s]
    ELSE IF ~o.ok THEN [raised |-> TRUE, engine |-> s]
    ELSE [raised |-> FALSE,
          engine |-> Engine(s.loads + 1, o.roster, SpeakerNames(o.roster),
                            build_voice_mapping(SpeakerNames(o.roster), o.roster),
                            s.loads + 1)]

NoPath == -1
TRet(op, t, kind, err, path, v, failed, removed) ==
    [op |-> op, text |-> t, kind |-> kind, err |-> err, path |-> path, voices |-> v,
     failed |-> failed, removed |-> removed]
Err(ty, m) == [type |-> ty, msg |-> m]

SetEngine(e) ==
    /\ model' = e.model
    /\ speaker_ids' = e.speaker_ids
    /\ speakers' = e.speakers
    /\ voices' = e.voices
    /\ loads' = e.loads

\* The load outcomes explored from engine fields s.
LoadsFrom(s) == IF s.model = 0 THEN {o \in LoadOutcome : s.loads < MaxLoads \/ ~o.ok}
                ELSE {CHOOSE o \in LoadOutcome : TRUE}

(***************************************************************************)
(* get_voices / generate_speech                                            *)
(***************************************************************************)
get_voices ==
    /\ unit = "tts"
    /\ \E o \in (IF voices = <<>> THEN LoadsFrom(CurrentEngine)
                                  ELSE {CHOOSE x \in LoadOutcome : TRUE}) :
         LET got == IF voices = <<>> THEN model_get(CurrentEngine, o)
                    ELSE [raised |-> FALSE, engine |-> CurrentEngine]
         IN /\ SetEngine(got.engine)
            /\ tret' = IF got.raised
                       THEN TRet("get_voices", NoText, "error",
                                 Err("Exception", <<"load failed">>), NoPath, <<>>, {}, 0)
                       ELSE TRet("get_voices", NoText, "ok", NoErr, NoPath,
                                 got.engine.voices, {}, 0)
    /\ UNCHANGED <<unit, trVars, callers, thread, stop_cleanup, sweep, files, clock>>

\* A synthesized file: named after the time of the call, modified then.
Artifact(at) == [name |-> at, mtime |-> at]
WriteFile(fs, f) == {x \in fs : x.name # f.name} \cup {f}

\* not text.strip()
Blank(t) == StrLen(strip(t)) = 0

\* Mutant for C10: the engine is loaded before the text is checked.
speech_call_loads_first(t, s, fs, now, o, w) ==
    LET got == model_get(s, o)
    IN IF got.raised
       THEN [kind |-> "error", err |-> Err("Exception", <<"load failed">>),
             path |-> NoPath, engine |-> s, files |-> fs]
       ELSE IF Blank(t)
       THEN [kind |-> "error", err |-> Err("TTSError", <<"Text cannot be empty">>),
             path |-> NoPath, engine |-> got.engine, files |-> fs]
       ELSE IF w = "raised"
       THEN [kind |-> "error",
             err |-> Err("TTSError", <<"Failed to generate speech: ", "synth failed">>),
             path |-> NoPath, engine |-> got.engine, files |-> fs]
       ELSE [kind |-> "ok", err |-> NoErr, path |-> now, engine |-> got.engine,
             files |-> WriteFile(fs, Artifact(now))]

\* generate_speech(text) from engine fields s at time now: what it returns
\* or raises, the engine fields and the directory afterwards.
speech_call(t, s, fs, now, o, w) ==
    IF Blank(t)
    THEN [kind |-> "error", err |-> Err("TTSError", <<"Text cannot be empty">>),
          path |-> NoPath, engine |-> s, files |-> fs]
    ELSE LET got == model_get(s, o)
         IN IF got.raised
            THEN [kind |-> "error", err |-> Err("Exception", <<"load failed">>),
                  path |-> NoPath, engine |-> s, files |-> fs]
            ELSE IF w = "raised"
            THEN [kind |-> "error",
                  err |-> Err("TTSError", <<"Failed to generate speech: ", "synth failed">>),
                  path |-> NoPath, engine |-> got.engine, files |-> fs]
            ELSE [kind |-> "ok", err |-> NoErr, path |-> now, engine |-> got.engine,
                  files |-> WriteFile(fs, Artifact(now))]

generate_speech(t) ==
    /\ unit = "tts"
    /\ \E o \in (IF Blank(t) THEN {CHOOSE x \in LoadOutcome : TRUE}
                               ELSE LoadsFrom(CurrentEngine)),
          w \in (IF Blank(t) THEN {"raised"} ELSE SynthOutcome) :
         LET call == speech_call(t, CurrentEngine, files, clock, o, w)
         IN /\ Cardinality(call.files) <= MaxFiles
            \* artifacts are written during the first MaxSeconds seconds
            /\ call.kind = "ok" => clock < MaxSeconds
            /\ SetEngine(call.engine)
            /\ files' = call.files
            /\ tret' = TRet("generate_speech", t, call.kind, call.err, call.path, <<>>, {}, 0)
    /\ UNCHANGED <<unit, trVars, callers, thread, stop_cleanup, sweep, clock>>

(***************************************************************************)
(* Eviction of old artifacts                                               *)
(***************************************************************************)
\* Mutant for C9: the age compared with >= instead of >.
IsOld_inclusive(f, now) == now - f.mtime >= MAX_FILE_AGE_SECONDS

\* file_age > self.MAX_FILE_AGE_SECONDS
IsOld(f, now) == now - f.mtime > MAX_FILE_AGE_SECONDS

\* _cleanup_old_files run in one go at time now; unlink raises for the
\* files in failing.
cleanup_old_files(fs, now, failing) == {f \in fs : ~IsOld(f, now) \/ f \in failing}

cleanup_now ==
    /\ unit = "tts"
    /\ \E failing \in SUBSET {f \in files : IsOld(f, clock)} :
         /\ files' = cleanup_old_files(files, clock, failing)
         /\ tret' = TRet("cleanup_now", NoText, "ok", NoErr, NoPath, <<>>, failing,
                         Cardinality(files) - Cardinality(files'))
    /\ UNCHANGED <<unit, trVars, callers, model, speaker_ids, speakers, voices, loads, thread,
                   stop_cleanup, sweep, clock>>

\* The cleanup thread.  thread is where _cleanup_worker stands: "check" at
\* the loop condition, "start" about to call _cleanup_old_files, "sweep"
\* inside its loop over the listing, "wait" in _stop_cleanup.wait, "exited".
NoSweep == [now |-> 0, todo |-> {}, failed |-> {}, removed |-> 0, wake |-> 0]
Alive(th) == th \notin {"None", "exited"}

worker_check ==
    /\ unit = "tts"
    /\ thread = "check"
    /\ thread' = IF stop_cleanup THEN "exited" ELSE "start"
    /\ UNCHANGED <<unit, trVars, callers, model, speaker_ids, speakers, voices, loads,
                   stop_cleanup, sweep, files, clock, tret>>

\* now = time.time(); the glob lists the directory.
worker_sweep_start ==
    /\ unit = "tts"
    /\ thread = "start"
    /\ thread' = "sweep"
    /\ sweep' = [now |-> clock, todo |-> files, failed |-> {}, removed |-> 0, wake |-> 0]
    /\ UNCHANGED <<unit, trVars, callers, model, speaker_ids, speakers, voices, loads,
                   stop_cleanup, files, clock, tret>>

\* Mutant for C18: an error on one file ends the loop over the listing.
worker_sweep_file_aborts ==
    /\ unit = "tts"
    /\ thread = "sweep"
    /\ \E f \in sweep.todo, unlinked \in BOOLEAN :
         LET error == f \notin files \/ (IsOld(f, sweep.now) /\ ~unlinked)
             gone == f \in files /\ IsOld(f, sweep.now) /\ unlinked
         IN /\ files' = IF gone THEN files \ {f} ELSE files
            /\ sweep' = [sweep EXCEPT !.todo = IF error THEN {} ELSE @ \ {f},
                                      !.failed = IF error THEN @ \cup {f} ELSE @,
                                      !.removed = IF gone THEN @ + 1 ELSE @]
    /\ UNCHANGED <<unit, trVars, callers, model, speaker_ids, speakers, voices, loads, thread,
                   stop_cleanup, clock, tret>>

\* One turn of the loop: stat raises for a file that is gone, unlink of an
\* old file removes it (removed_count += 1) or raises; either error is caught
\* and the loop goes on.
worker_sweep_file ==
    /\ unit = "tts"
    /\ thread = "sweep"
    /\ \E f \in sweep.todo, unlinked \in BOOLEAN :
         LET error == f \notin files \/ (IsOld(f, sweep.now) /\ ~unlinked)
             gone == f \in files /\ IsOld(f, sweep.now) /\ unlinked
         IN /\ files' = IF gone THEN files \ {f} ELSE files
            /\ sweep' = [sweep EXCEPT !.todo = @ \ {f},
                                      !.failed = IF error THEN @ \cup {f} ELSE @,
                                      !.removed = IF gone THEN @ + 1 ELSE @]
    /\ UNCHANGED <<unit, trVars, callers, model, speaker_ids, speakers, voices, loads, thread,
                   stop_cleanup, clock, tret>>

\* The loop is over: _cleanup_old_files returns and the thread waits for
\* the stop signal or the interval.
worker_sweep_end ==
    /\ unit = "tts"
    /\ thread = "sweep"
    /\ sweep.todo = {}
    /\ thread' = "wait"
    /\ sweep' = [NoSweep EXCEPT !.wake = clock + CLEANUP_INTERVAL_SECONDS]
    /\ UNCHANGED <<unit, trVars, callers, model, speaker_ids, speakers, voices, loads,
                   stop_cleanup, files, clock, tret>>

\* Mutant for C17: the wait sleeps the interval out, whatever the signal.
worker_wait_sleeps ==
    /\ unit = "tts"
    /\ thread = "wait"
    /\ clock >= sweep.wake
    /\ thread' = "check"
    /\ sweep' = NoSweep
    /\ UNCHANGED <<unit, trVars, callers, model, speaker_ids, speakers, voices, loads,
                   stop_cleanup, files, clock, tret>>

\* self._stop_cleanup.wait(CLEANUP_INTERVAL_SECONDS) returns when the signal
\* is set or the interval is over.
worker_wait ==
    /\ unit = "tts"
    /\ thread = "wait"
    /\ stop_cleanup \/ clock >= sweep.wake
    /\ thread' = "check"
    /\ sweep' = NoSweep
    /\ UNCHANGED <<unit, trVars, callers, model, speaker_ids, speakers, voices, loads,
                   stop_cleanup, files, clock, tret>>

(***************************************************************************)
(* stop_cleanup / shutdown                                                 *)
(***************************************************************************)
\* stop_cleanup(): the signal is set when the thread is alive; the join
\* that follows waits at most two seconds and changes no field.
stop_cleanup_call(th, stop) == IF Alive(th) THEN TRUE ELSE stop

\* shutdown() as a function of the fields it touches.
tts_shutdown(s) ==
    [thread |-> s.thread, stop_cleanup |-> stop_cleanup_call(s.thread, s.stop_cleanup),
     model |-> 0, speaker_ids |-> <<>>, speakers |-> <<>>, voices |-> <<>>]
TtsFields ==
    [thread |-> thread, stop_cleanup |-> stop_cleanup, model |-> model,
     speaker_ids |-> speaker_ids, speakers |-> speakers, voices |-> voices]

MeloTTSService_shutdown ==
    /\ unit = "tts"
    /\ LET after == tts_shutdown(TtsFields)
       IN /\ stop_cleanup' = after.stop_cleanup
          /\ model' = after.model
          /\ speaker_ids' = after.speaker_ids
          /\ speakers' = after.speakers
          /\ voices' = after.voices
    /\ tret' = TRet("shutdown", NoText, "ok", NoErr, NoPath, <<>>, {}, 0)
    /\ UNCHANGED <<unit, trVars, callers, loads, thread, sweep, files, clock>>

\* Time passes: by a second, or by the length of the retention window.
Tick ==
    /\ unit = "tts"
    /\ \/ clock % MAX_FILE_AGE_SECONDS < MaxSeconds /\ clock' = clock + 1
       \/ clock < MAX_FILE_AGE_SECONDS /\ clock' = clock + MAX_FILE_AGE_SECONDS
    /\ UNCHANGED <<unit, trVars, callers, model, speaker_ids, speakers, voices, loads, thread,
                   stop_cleanup, sweep, files, tret>>

\* __init__(auto_cleanup): the cleanup thread is started when auto_cleanup.
InitTTS ==
    /\ model = 0
    /\ speaker_ids = <<>>
    /\ speakers = <<>>
    /\ voices = <<>>
    /\ loads = 0
    /\ stop_cleanup = FALSE
    /\ sweep = NoSweep
    /\ files = {}
    /\ clock = 0
    /\ tret = TRet("init", NoText, "ok", NoErr, NoPath, <<>>, {}, 0)

NextTTS ==
    \/ \E t \in SpeechTexts : generate_speech(t)
    \/ get_voices
    \/ cleanup_now
    \/ MeloTTSService_shutdown
    \/ worker_check
    \/ worker_sweep_start
    \/ worker_sweep_file
    \/ worker_sweep_end
    \/ worker_wait
    \/ Tick

(***************************************************************************)
(* Request threads (app.run(threaded=True)) inside one MeloTTSService.     *)
(* Each statement that reads or writes a field of the manager is a step of *)
(* its thread, so that the steps of two calls interleave.  The manager has *)
(* no cleanup thread here, the texts are not blank, and the engine package *)
(* builds without error and reports one roster.                            *)
(***************************************************************************)
Callers == {1, 2}
InstalledRoster == <<Speaker("EN", 0), Speaker("ZH", 1)>>

\* A thread between calls: the call it made last and how that ended.  role
\* is what the thread is there for: "caller" calls generate_speech and
\* get_voices, "closer" calls shutdown.
Idle(role) ==
    [role |-> role, op |-> "none", pc |-> "idle", depth |-> 0, model |-> 0,
     stamp |-> NoPath, kind |-> "none", err |-> ""]
Enters(c, op, pc) ==
    [callers EXCEPT ![c] = [Idle(callers[c].role) EXCEPT !.op = op, !.pc = pc]]
Goes(c, pc) == [callers EXCEPT ![c].pc = pc]
\* The call returns, or an exception leaves it through every frame.
Ends(c, kind, err) ==
    [callers EXCEPT ![c].pc = "idle", ![c].depth = 0, ![c].kind = kind, ![c].err = err]
At(c, pc) == unit = "callers" /\ callers[c].pc = pc
cleanupVars == <<thread, stop_cleanup, sweep, tret>>

\* generate_speech(text), text not blank: up to "model = self.model".
caller_generate_speech(c) ==
    /\ At(c, "idle") /\ callers[c].role = "caller"
    /\ callers' = Enters(c, "generate_speech", "check")
    /\ UNCHANGED <<unit, trVars, cleanupVars, model, speaker_ids, speakers, voices, loads,
                   files, clock>>

\* get_voices(): "if self._voices is None: _ = self.model".
caller_get_voices(c) ==
    /\ At(c, "idle") /\ callers[c].role = "caller"
    /\ callers' = Enters(c, "get_voices", IF voices = <<>> THEN "check" ELSE "return_voices")
    /\ UNCHANGED <<unit, trVars, cleanupVars, model, speaker_ids, speakers, voices, loads,
                   files, clock>>

\* shutdown(): stop_cleanup() finds no cleanup thread.
caller_shutdown(c) ==
    /\ At(c, "idle") /\ callers[c].role = "closer"
    /\ callers' = Enters(c, "shutdown", "clear_model")
    /\ UNCHANGED <<unit, trVars, cleanupVars, model, speaker_ids, speakers, voices, loads,
                   files, clock>>

\* model property: "if self._model is None".
model_check(c) ==
    /\ At(c, "check")
    /\ callers' = Goes(c, IF model = 0 THEN "build" ELSE "return_model")
    /\ UNCHANGED <<unit, trVars, cleanupVars, model, speaker_ids, speakers, voices, loads,
                   files, clock>>

\* "self._model = TTS(language='ZH', device=self.device)".
model_build(c) ==
    /\ At(c, "build")
    /\ loads < MaxLoads
    /\ model' = loads + 1
    /\ loads' = loads + 1
    /\ callers' = Goes(c, "speaker_ids")
    /\ UNCHANGED <<unit, trVars, cleanupVars, speaker_ids, speakers, voices, files, clock>>

\* "self._speaker_ids = self._model.hps.data.spk2id": None has no hps.
model_speaker_ids(c) ==
    /\ At(c, "speaker_ids")
    /\ IF model = 0
       THEN /\ callers' = Ends(c, "error", "AttributeError")
            /\ UNCHANGED speaker_ids
       ELSE /\ speaker_ids' = InstalledRoster
            /\ callers' = Goes(c, "speakers")
    /\ UNCHANGED <<unit, trVars, cleanupVars, model, speakers, voices, loads, files, clock>>

\* "self._speakers = list(self._speaker_ids.keys())": None has no keys.
model_speakers(c) ==
    /\ At(c, "speakers")
    /\ IF speaker_ids = <<>>
       THEN /\ callers' = Ends(c, "error", "AttributeError")
            /\ UNCHANGED speakers
       ELSE /\ speakers' = SpeakerNames(speaker_ids)
            /\ callers' = Goes(c, "voices")
    /\ UNCHANGED <<unit, trVars, cleanupVars, model, speaker_ids, voices, loads, files, clock>>

\* "self._voices = self._build_voice_mapping()", up to the test
\* "if self._speaker_ids is None: _ = self.model", which enters the model
\* property once more.
model_voices(c) ==
    /\ At(c, "voices")
    /\ callers' = IF speaker_ids = <<>>
                  THEN [callers EXCEPT ![c].pc = "check", ![c].depth = @ + 1]
                  ELSE Goes(c, "mapping")
    /\ UNCHANGED <<unit, trVars, cleanupVars, model, speaker_ids, speakers, voices, loads,
                   files, clock>>

\* The loop of _build_voice_mapping over self._speakers, reading
\* self._speaker_ids[speaker], and the assignment of its result to _voices.
\* None can be neither enumerated nor subscripted.
voice_mapping(c) ==
    /\ At(c, "mapping")
    /\ IF speakers = <<>> \/ speaker_ids = <<>>
       THEN /\ callers' = Ends(c, "error", "TypeError")
            /\ UNCHANGED voices
       ELSE /\ voices' = build_voice_mapping(speakers, speaker_ids)
            /\ callers' = Goes(c, "return_model")
    /\ UNCHANGED <<unit, trVars, cleanupVars, model, speaker_ids, speakers, loads, files, clock>>

\* "return self._model": into _build_voice_mapping when that had entered the
\* property, else to the call, which keeps the value when it is
\* generate_speech.
model_return(c) ==
    /\ At(c, "return_model")
    /\ callers' = IF callers[c].depth > 0
                  THEN [callers EXCEPT ![c].pc = "mapping", ![c].depth = @ - 1]
                  ELSE IF callers[c].op = "generate_speech"
                  THEN [callers EXCEPT ![c].pc = "speaker_id", ![c].model = model]
                  ELSE Goes(c, "return_voices")
    /\ UNCHANGED <<unit, trVars, cleanupVars, model, speaker_ids, speakers, voices, loads,
                   files, clock>>

\* "speaker_id = self._speaker_ids[self._speakers[0]]", outside the try.
speech_speaker_id(c) ==
    /\ At(c, "speaker_id")
    /\ callers' = IF speakers = <<>> \/ speaker_ids = <<>>
                  THEN Ends(c, "error", "TypeError")
                  ELSE Goes(c, "timestamp")
    /\ UNCHANGED <<unit, trVars, cleanupVars, model, speaker_ids, speakers, voices, loads,
                   files, clock>>

\* "timestamp = datetime.now().strftime(...)": the clock is read; it shows
\* the value last read by any thread or a later one.
speech_timestamp(c) ==
    /\ At(c, "timestamp")
    /\ \E now \in {clock, clock + 1} :
         /\ now < MaxSeconds
         /\ clock' = now
         /\ callers' = [callers EXCEPT ![c].pc = "tts_to_file", ![c].stamp = now]
    /\ UNCHANGED <<unit, trVars, cleanupVars, model, speaker_ids, speakers, voices, loads,
                   files>>

\* "model.tts_to_file(...)" inside the try: None has no tts_to_file, and any
\* error becomes TTSError.  The synthesis takes time: when it is over the
\* clock is past the value the call read.
speech_tts_to_file(c) ==
    /\ At(c, "tts_to_file")
    /\ \E w \in SynthOutcome :
         IF callers[c].model = 0 \/ w = "raised"
         THEN /\ callers' = Ends(c, "error", "TTSError")
              /\ UNCHANGED files
         ELSE /\ files' = WriteFile(files, Artifact(callers[c].stamp))
              /\ Cardinality(files') <= MaxFiles
              /\ callers' = Ends(c, "ok", "")
    /\ clock' = IF clock > callers[c].stamp THEN clock ELSE callers[c].stamp + 1
    /\ UNCHANGED <<unit, trVars, cleanupVars, model, speaker_ids, speakers, voices, loads>>

\* "return self._voices": the mapping, or None when the field is not set.
voices_return(c) ==
    /\ At(c, "return_voices")
    /\ callers' = Ends(c, IF voices = <<>> THEN "ok_None" ELSE "ok", "")
    /\ UNCHANGED <<unit, trVars, cleanupVars, model, speaker_ids, speakers, voices, loads,
                   files, clock>>

\* The four assignments of shutdown(), one after the other.
shutdown_clear(c) ==
    /\ unit = "callers"
    /\ \/ /\ callers[c].pc = "clear_model"
          /\ model' = 0
          /\ callers' = Goes(c, "clear_speaker_ids")
          /\ UNCHANGED <<speaker_ids, speakers, voices>>
       \/ /\ callers[c].pc = "clear_speaker_ids"
          /\ speaker_ids' = <<>>
          /\ callers' = Goes(c, "clear_speakers")
          /\ UNCHANGED <<model, speakers, voices>>
       \/ /\ callers[c].pc = "clear_speakers"
          /\ speakers' = <<>>
          /\ callers' = Goes(c, "clear_voices")
          /\ UNCHANGED <<model, speaker_ids, voices>>
       \/ /\ callers[c].pc = "clear_voices"
          /\ voices' = <<>>
          /\ callers' = Ends(c, "ok", "")
          /\ UNCHANGED <<model, speaker_ids, speakers>>
    /\ UNCHANGED <<unit, trVars, cleanupVars, loads, files, clock>>

\* Two request threads call generate_speech and get_voices, or one of them
\* calls shutdown instead.
InitCallers ==
    callers \in IF unit = "callers"
                THEN {[c \in Callers |-> Idle(IF c = 1 THEN "caller" ELSE r)] :
                        r \in {"caller", "closer"}}
                ELSE {[c \in Callers |-> Idle("caller")]}

NextCallers ==
    \E c \in Callers :
        \/ caller_generate_speech(c)
        \/ caller_get_voices(c)
        \/ caller_shutdown(c)
        \/ model_check(c)
        \/ model_build(c)
        \/ model_speaker_ids(c)
        \/ model_speakers(c)
        \/ model_voices(c)
        \/ voice_mapping(c)
        \/ model_return(c)
        \/ speech_speaker_id(c)
        \/ speech_timestamp(c)
        \/ speech_tts_to_file(c)
        \/ voices_return(c)
        \/ shutdown_clear(c)

\* The two components share no state: a behaviour exercises one of them, the
\* other stays as constructed.  The speech manager is exercised by one
\* caller whose calls are taken whole ("tts"), or by request threads whose
\* calls interleave ("callers").
Init ==
    /\ unit \in {"translation", "tts", "callers"}
    /\ InitTranslation
    /\ InitTTS
    /\ thread \in (IF unit = "tts" THEN {"check", "None"} ELSE {"None"})
    /\ InitCallers

Next == NextTranslation \/ NextTTS \/ NextCallers

Spec == Init /\ [][Next]_vars

\* The translation orchestrator alone, its executor's worker thread kept
\* running: the worker takes the next work item and the providers answer
\* it.  Nothing is assumed about the caller.
TranslationInit == Init /\ unit = "translation"
TranslationFairSpec ==
    /\ TranslationInit
    /\ [][NextTranslation]_vars
    /\ WF_vars(worker_start)
    /\ WF_vars(worker_finish)

\* The speech manager alone, its cleanup thread kept running: the thread
\* goes on from wherever it stands.  Nothing is assumed about the caller or
\* about the passing of time.
CleanupInit == Init /\ unit = "tts"
CleanupFairSpec ==
    /\ CleanupInit
    /\ [][NextTTS]_vars
    /\ WF_vars(worker_check)
    /\ WF_vars(worker_sweep_start)
    /\ WF_vars(worker_sweep_file)
    /\ WF_vars(worker_sweep_end)
    /\ WF_vars(worker_wait)

(***************************************************************************)
(* Properties of the translation orchestrator                              *)
(***************************************************************************)
\* What the claims mean by a text after trimming, and by its length.
Trimmed(t) == Txt(0, t.body)
TrimmedLen(t) == BodyLen(t.body)
Contains(msg, part) == \E i \in 1..Len(msg) : msg[i] = part
Last(q) == q[Len(q)]
BothFailed(att) == Len(att) = 2 /\ ~att[1].ok /\ ~att[2].ok
\* The failure message of a provider, and the answers that are its own.
FailureOf(backend) == IF backend = "googletrans" THEN "gfail" ELSE "dfail"
AnswersOf(backend) == IF backend = "googletrans" THEN GoogleAnswers ELSE DeepAnswers

\* The step is the caller's translate(t).
Translates(t) == ret'.op = "translate" /\ ret'.text = t /\ translate(t)

\* C1: when both backends fail, translate() raises TranslationError whose
\* message holds the primary backend's failure message and the fallback
\* backend's failure message, on the short route and on the long route.
C1_BothFailuresReported ==
    (ret.op = "translate" /\ BothFailed(ret.attempts)) =>
        /\ ret.kind = "error"
        /\ ret.err.type = "TranslationError"
        /\ Contains(ret.err.msg, FailureOf(ret.attempts[1].backend))
        /\ Contains(ret.err.msg, FailureOf(ret.attempts[2].backend))

\* C2 as stated: a translate call on a key for which some translate call has
\* returned a pair (and whose entry was not dropped since) returns that very
\* pair, whichever earlier call is taken, and calls no backend.
C2_AnyEarlierPair ==
    [][\A t \in Texts :
         (Translates(t) /\ TrimmedLen(t) > 0 /\ seen[Trimmed(t)] # <<>>) =>
             /\ ret'.kind = "ok"
             /\ \A i \in 1..Len(seen[Trimmed(t)]) : ret'.pair = seen[Trimmed(t)][i]
             /\ ret'.attempts = <<>>]_vars

\* C2 amended: such a call returns the pair that the first translate call to
\* complete for that key returned (the pair the cache holds), and calls no
\* backend.
C2_FirstPair ==
    [][\A t \in Texts :
         (Translates(t) /\ TrimmedLen(t) > 0 /\ seen[Trimmed(t)] # <<>>) =>
             /\ ret'.kind = "ok"
             /\ ret'.pair = seen[Trimmed(t)][1]
             /\ ret'.attempts = <<>>]_vars

\* A padded text hits the entry of its trimmed form after two overlapping
\* calls on that key returned different pairs.
C2_Witness ==
    /\ ret.op = "translate" /\ ret.text = Txt(1, "S")
    /\ ret.kind = "ok" /\ ret.attempts = <<>>
    /\ Len(seen[Txt(0, "S")]) = 2
    /\ ret.pair = seen[Txt(0, "S")][1]

\* C3: a translate call that misses the cache tries googletrans first when
\* the trimmed text has at most 500 characters and deep-translator first
\* when it has more; it tries the other backend only after the first failed.
RoutedByLength(t, att) ==
    att # <<>> =>
        /\ TrimmedLen(t) <= 500 => att[1].backend = "googletrans"
        /\ TrimmedLen(t) > 500 => att[1].backend = "deep-translator"
        /\ Len(att) <= 2
        /\ Len(att) = 2 => (~att[1].ok /\ att[2].backend # att[1].backend)

C3_PrimaryByLength ==
    /\ ret.op = "translate" => RoutedByLength(ret.text, ret.attempts)
    /\ future # 0 => RoutedByLength(futures[future].text, futures[future].res.attempts)

\* The padded text of exactly 500 characters went to googletrans first and
\* then to deep-translator.
C3_Witness ==
    /\ ret.op = "translate" /\ ret.text = Txt(1, "S")
    /\ Len(ret.attempts) = 2 /\ ret.attempts[1].backend = "googletrans"

\* C4: when the primary fails and the alternate succeeds, translate returns
\* the alternate's text with a mechanism naming the alternate and ending in
\* "(fallback)"; when the primary succeeds the mechanism does not end so.
C4_FallbackTagged ==
    (ret.op = "translate" /\ ret.kind = "ok" /\ ret.attempts # <<>>) =>
        IF ret.attempts[1].ok
        THEN /\ Last(ret.pair[2]) # " (fallback)"
             /\ ret.pair[1] \in AnswersOf(ret.attempts[1].backend)
        ELSE /\ Len(ret.attempts) = 2 /\ ret.attempts[2].ok
             /\ ret.pair[1] \in AnswersOf(ret.attempts[2].backend)
             /\ ret.pair[2][1] = ret.attempts[2].backend
             /\ Last(ret.pair[2]) = " (fallback)"

\* The long text, deep-translator failing, answered by googletrans.
C4_Witness ==
    /\ ret.op = "translate" /\ ret.text = Txt(0, "L") /\ ret.kind = "ok"
    /\ Len(ret.attempts) = 2
    /\ ret.pair = <<"zhG", <<"googletrans", " (fallback)">> >>

\* C5: a translate call that fails leaves the cache as it was, with no entry
\* for its text, and a translate call on a text without an entry calls the
\* backends.
C5_FailureNotCached ==
    [][\A t \in Texts :
         /\ (Translates(t) /\ ret'.kind = "error") =>
                (cache' = cache /\ Trimmed(t) \notin CacheKeys(cache'))
         /\ (Translates(t) /\ TrimmedLen(t) > 0 /\ Trimmed(t) \notin CacheKeys(cache)) =>
                ret'.attempts # <<>>]_vars

\* A call failed while the cache held other entries.
C5_Witness ==
    /\ ret.op = "translate" /\ ret.kind = "error"
    /\ Len(cache) = maxsize
    /\ Trimmed(ret.text) \notin CacheKeys(cache)

\* C6: translate of a text that is empty after trimming returns ("", "none"),
\* calls no backend and leaves the cache unchanged.
C6_EmptyInput ==
    [][\A t \in Texts :
         (Translates(t) /\ TrimmedLen(t) = 0) =>
             /\ ret'.kind = "ok"
             /\ ret'.pair = <<"", <<"none">> >>
             /\ ret'.attempts = <<>>
             /\ cache' = cache]_vars

\* The whitespace-only text was translated while the cache was full.
C6_Witness ==
    /\ ret.op = "translate" /\ ret.text = Txt(1, "")
    /\ ret.pair = <<"", <<"none">> >>
    /\ Len(cache) = maxsize

(***************************************************************************)
(* Properties of both components' shutdown                                 *)
(***************************************************************************)
\* C7: after shutdown() any later operation builds the resources it needs
\* again and completes as on a fresh instance: translate_async gets a
\* working executor and a handle, get_voices and generate_speech get an
\* engine with its voice state.
C7_ReinitAfterShutdown ==
    /\ ret.op = "translate_async" =>
           (ret.kind = "ok" /\ executor = "running" /\ future # 0)
    /\ (tret.op = "get_voices" /\ tret.kind = "ok") =>
           (model # 0 /\ voices # <<>> /\ tret.voices = voices)
    /\ (tret.op = "generate_speech" /\ tret.kind = "ok") =>
           (model # 0 /\ speakers # <<>> /\ speaker_ids # <<>>)

\* C8: shutdown() of either component raises nothing, and in the state it
\* leaves a second shutdown() changes no field.
TranslationFields == [executor |-> executor, cache |-> cache]
C8_ShutdownIdempotent ==
    [][/\ (ret'.op = "shutdown" /\ TranslationService_shutdown) =>
              /\ ret'.kind = "ok"
              /\ translation_shutdown(TranslationFields') = TranslationFields'
       /\ (tret'.op = "shutdown" /\ MeloTTSService_shutdown) =>
              /\ tret'.kind = "ok"
              /\ tts_shutdown(TtsFields') = TtsFields']_vars

\* shutdown() returned on a used manager whose cleanup thread is still alive.
C8_Witness ==
    /\ tret.op = "shutdown" /\ stop_cleanup /\ Alive(thread) /\ loads > 0 /\ model = 0

(***************************************************************************)
(* Properties of the speech synthesis manager                              *)
(***************************************************************************)
\* What the claims mean by an artifact older than the retention window.
AgeExceeds(f, now) == now - f.mtime > 3600

\* C9: a sweep removes every artifact older than the retention window at the
\* sweep's time unless its deletion raised, and removes no other artifact;
\* the background sweep ends only after it examined every listed artifact.
C9_SweepEvictsOld ==
    [][/\ (tret'.op = "cleanup_now" /\ cleanup_now) =>
              \A f \in files :
                  /\ (AgeExceeds(f, clock) /\ f \notin tret'.failed) => f \notin files'
                  /\ ~AgeExceeds(f, clock) => f \in files'
       /\ worker_sweep_file =>
              \A f \in files :
                  /\ (f \in sweep.todo \ sweep'.todo /\ AgeExceeds(f, sweep.now)
                        /\ f \notin sweep'.failed) => f \notin files'
                  /\ f \notin sweep.todo \ sweep'.todo => f \in files'
                  /\ ~AgeExceeds(f, sweep.now) => f \in files'
       /\ worker_sweep_end => sweep.todo = {}]_vars

\* cleanup_now removed an artifact and kept the one exactly as old as the window.
C9_Witness ==
    /\ tret.op = "cleanup_now" /\ tret.removed = 1
    /\ \E f \in files : clock - f.mtime = 3600

\* C10: generate_speech of a text that is blank after trimming raises the
\* empty-text error and changes nothing: no engine load, no voice state, no
\* artifact.
C10_BlankRejected ==
    [][\A t \in SpeechTexts :
         (tret'.op = "generate_speech" /\ tret'.text = t /\ TrimmedLen(t) = 0
            /\ generate_speech(t)) =>
             /\ tret'.kind = "error"
             /\ tret'.err = Err("TTSError", <<"Text cannot be empty">>)
             /\ UNCHANGED <<model, speaker_ids, speakers, voices, loads, files, thread,
                            stop_cleanup, sweep, clock>>]_vars

\* The whitespace-only text was rejected by a manager that never loaded.
C10_Witness ==
    /\ tret.op = "generate_speech" /\ tret.text = Txt(1, "")
    /\ tret.kind = "error" /\ model = 0 /\ loads = 0

\* C11: a generate_speech call with non-blank text that fails because of the
\* engine, in the load it triggers or in the synthesis, raises TTSError
\* whose message holds the cause's message; no other error kind escapes.
CauseOf(err) == IF Contains(err.msg, "synth failed") THEN "synth failed"
                ELSE IF Contains(err.msg, "load failed") THEN "load failed" ELSE ""
C11_EngineFailureWrapped ==
    (tret.op = "generate_speech" /\ tret.kind = "error" /\ TrimmedLen(tret.text) > 0) =>
        /\ tret.err.type = "TTSError"
        /\ CauseOf(tret.err) # ""

\* C12: get_voices returns one voice per speaker of the engine's roster,
\* keyed "1".."N" in roster order, each with that speaker's name and
\* identifier; a call that finds the mapping built returns it as it is.
DecimalKey(i) == CASE i = 1 -> "1" [] i = 2 -> "2" [] i = 3 -> "3" [] OTHER -> "?"
RosterKeyed(v, roster) ==
    /\ Len(v) = Len(roster)
    /\ \A i \in 1..Len(roster) :
          /\ v[i].key = DecimalKey(i)
          /\ v[i].name = roster[i].name
          /\ v[i].speaker_id = roster[i].id

C12_VoicesKeyedInRosterOrder ==
    [][(tret'.op = "get_voices" /\ tret'.kind = "ok" /\ get_voices) =>
           /\ RosterKeyed(tret'.voices, speaker_ids')
           /\ Len(tret'.voices) > 0
           /\ voices # <<>> => (tret'.voices = voices /\ voices' = voices)]_vars

\* get_voices returned the stored mapping of a roster of two speakers.
C12_Witness ==
    /\ tret.op = "get_voices" /\ tret.kind = "ok"
    /\ Len(tret.voices) = 2 /\ tret.voices[2].key = "2" /\ tret.voices[2].name = "ZH"
    /\ tret.voices = voices /\ loads = 1

(***************************************************************************)
(* Properties of the asynchronous translation                              *)
(***************************************************************************)
\* The pairs a translate(t) call can return.
TranslatePairs(t) ==
    IF TrimmedLen(t) = 0 THEN {<<"", <<"none">> >>}
    ELSE {r.pair : r \in {x \in ImplResults(Trimmed(t)) : x.kind = "ok"}}
TimedOut(r) ==
    /\ r.op = "get_translation_result" /\ r.kind = "error"
    /\ r.err = [type |-> "TranslationError", msg |-> <<"Translation timed out">>]

\* C13: a get_translation_result call made while the computation of
\* translate_async(T) has not resolved raises the timeout error and leaves
\* the handle and the computation as they are; every computation submitted
\* eventually resolves, and stays resolved; a call made after it resolved
\* with a pair returns that pair, which is a pair translate(T) returns.
C13_TimeoutKeepsPending ==
    /\ [][(ret'.op = "get_translation_result" /\ future # 0 /\ get_translation_result) =>
             /\ futures[future].state # "finished" =>
                    (TimedOut(ret') /\ future' = future /\ futures' = futures)
             /\ (futures[future].state = "finished" /\ futures[future].res.kind = "ok") =>
                    /\ ret'.kind = "ok"
                    /\ ret'.pair = futures[future].res.pair
                    /\ ret'.pair \in TranslatePairs(futures[future].text)]_vars
    /\ [][\A i \in 1..Len(futures) :
              futures[i].state = "finished" => futures'[i].state = "finished"]_vars
    /\ []<>(\A i \in 1..Len(futures) : futures[i].state = "finished")

\* The call timed out, and the computation it waited for has since resolved
\* with a pair that the handle still leads to.
C13_Witness ==
    /\ TimedOut(ret)
    /\ future # 0 /\ futures[future].state = "finished"
    /\ futures[future].res.kind = "ok"

\* The computation started last.
LastStarted == futures[Len(futures)]

\* C14: after translate_async(T1) and then translate_async(T2),
\* get_translation_result and is_translation_done answer for the computation
\* of T2 alone: a result is returned, or a failure reported, only when that
\* computation has resolved, and it is that computation's; the done flag is
\* that computation's state.
C14_LastStartedWins ==
    [][/\ (ret'.op = "get_translation_result" /\ future # 0 /\ get_translation_result) =>
              /\ ret'.kind = "ok" =>
                     /\ LastStarted.state = "finished"
                     /\ ret'.pair = LastStarted.res.pair
                     /\ ret'.pair \in TranslatePairs(LastStarted.text)
              /\ (ret'.kind = "error" /\ ~TimedOut(ret')) =>
                     (LastStarted.state = "finished" /\ LastStarted.res.kind = "error")
              /\ TimedOut(ret') => LastStarted.state # "finished"
       /\ (ret'.op = "is_translation_done" /\ future # 0 /\ is_translation_done) =>
              (ret'.flag <=> LastStarted.state = "finished")]_vars

\* is_translation_done said no while the computation of T1 had resolved and
\* that of T2, another text, had not.
C14_Witness ==
    /\ ret.op = "is_translation_done" /\ ~ret.flag
    /\ Len(futures) = 2 /\ future = 2
    /\ futures[1].text # futures[2].text
    /\ futures[1].state = "finished" /\ futures[2].state # "finished"

\* C19: at most one asynchronous translation is executing at any moment, and
\* a translation has started only when every translation submitted before
\* it has finished.
C19_OneAtATime ==
    /\ Cardinality(Running) <= 1
    /\ \A i, j \in 1..Len(futures) :
          (i < j /\ futures[j].state # "pending") => futures[i].state = "finished"

\* One translation is running its backend calls and the next one waits.
C19_Witness ==
    /\ Len(futures) = 2
    /\ futures[1].state = "running" /\ futures[2].state = "pending"

(***************************************************************************)
(* Properties of the cleanup thread                                        *)
(***************************************************************************)
\* The step deletes an artifact.
Deletes == \E f \in files : f \notin files'

\* C17 as stated: once the stop signal is set while the cleanup thread is
\* alive, the thread eventually ends without the interval having to pass, it
\* starts no sweep after the signal was set, and once shutdown() has
\* returned the background sweep deletes nothing more.
C17_NothingAfterShutdown ==
    /\ (stop_cleanup /\ Alive(thread)) ~> (thread = "exited")
    /\ [][stop_cleanup => ~worker_sweep_start]_vars
    /\ [][(stop_cleanup /\ worker_sweep_file) => ~Deletes]_vars

\* C17 amended: the thread eventually ends without the interval having to
\* pass; the signal stays set and every loop check made after it ends the
\* thread, so that no sweep starts after the signal but the one whose loop
\* check was already passed; once the thread has ended, only cleanup_now
\* deletes artifacts.
C17_WorkerStops ==
    /\ (stop_cleanup /\ Alive(thread)) ~> (thread = "exited")
    /\ [][(stop_cleanup /\ worker_check) => thread' = "exited"]_vars
    /\ [][stop_cleanup => stop_cleanup']_vars
    /\ [][(stop_cleanup /\ thread # "start") => thread' # "start"]_vars
    /\ [][(thread = "exited" /\ Deletes) => (thread' = "exited" /\ tret'.op = "cleanup_now")]_vars

\* The signal was set while the thread was waiting for the interval, and the
\* thread has ended although the interval is not over.
C17_Witness ==
    /\ tret.op = "shutdown" /\ stop_cleanup /\ thread = "exited"
    /\ clock < CLEANUP_INTERVAL_SECONDS

\* C18: an error on one artifact does not end the sweep: the background
\* sweep goes on with the rest of its listing and ends only when every
\* artifact older than the window at the sweep's time is gone or had an
\* error of its own; cleanup_now likewise, and it raises nothing.
C18_SweepSurvivesErrors ==
    [][/\ worker_sweep_file => (thread' = "sweep" /\ tret' = tret)
       /\ worker_sweep_end =>
              \A f \in files : AgeExceeds(f, sweep.now) => f \in sweep.failed
       /\ (tret'.op = "cleanup_now" /\ cleanup_now) =>
              /\ tret'.kind = "ok"
              /\ \A f \in files' : AgeExceeds(f, clock) => f \in tret'.failed]_vars

\* The background sweep found an artifact gone, removed meanwhile by
\* cleanup_now, and deleted another old artifact all the same.
C18_Witness ==
    /\ thread = "sweep" /\ sweep.todo = {}
    /\ \E f \in sweep.failed : f \notin files
    /\ sweep.removed >= 1
    /\ tret.op = "cleanup_now" /\ tret.removed >= 1

(***************************************************************************)
(* Properties of concurrent requests to the speech synthesis manager       *)
(***************************************************************************)
\* The step ends thread c's generate_speech call with a written artifact.
WritesArtifact(c) ==
    /\ callers[c].pc = "tts_to_file" /\ callers'[c].pc = "idle" /\ callers'[c].kind = "ok"
    /\ speech_tts_to_file(c)
OnlyCallers == unit = "callers" /\ \A c \in Callers : callers[c].role = "caller"

\* C15: a successful generate_speech call writes to a name no artifact of
\* the directory has, whatever the other request threads do and whatever
\* clock values the calls read.
C15_DistinctArtifactNames ==
    [][\A c \in Callers :
         WritesArtifact(c) => \A f \in files : f.name # callers[c].stamp]_vars

\* C16: with request threads calling generate_speech and get_voices on a
\* manager that starts without engine, and no shutdown, the engine is built
\* once and every call gets that engine.
C16_EngineBuiltOnce ==
    OnlyCallers =>
        /\ loads <= 1
        /\ \A c \in Callers : callers[c].model \in {0, model}

\* C20: whenever _model is set, _speaker_ids, _speakers and _voices are set
\* too, and no call fails on, or returns, a field that is None, with request
\* threads loading the engine at once and with shutdown running beside
\* generate_speech.
C20_EngineImpliesRoster ==
    unit = "callers" =>
        /\ model # 0 => (speaker_ids # <<>> /\ speakers # <<>> /\ voices # <<>>)
        /\ \A c \in Callers :
              /\ callers[c].err \notin {"TypeError", "AttributeError"}
              /\ callers[c].kind # "ok_None"

====
